---------------------------- MODULE Spec2Model ----------------------------
(***************************************************************************)
(* Hash router with page cache (js/router.js), translation store (i18n.js)  *)
(* and contact form handler (contact.js) of the CCC single-page site.      *)
(*                                                                         *)
(* JavaScript values are strings here.  Two values that are not strings in *)
(* the program are written as tagged strings: Undefined, and the members a *)
(* plain object inherits from Object.prototype (Inherited).                *)
(***************************************************************************)
EXTENDS Bags, FiniteSets, Integers, Sequences, TLC

VARIABLES
    locationHash,   \* window.location.hash, as tokens: <<>> or <<"#", id>>
    pageCache,      \* router: own properties of the pageCache object
    content,        \* router: what contentArea.innerHTML holds
    pending,        \* router: navigations suspended at an await (a bag)
    fetchCount,     \* number of fetch() calls issued per fragment route
    routerReady,    \* router.init() has bound the listeners
    activeNav,      \* [data-page] links carrying aria-current="page"
    docTitle,       \* document.title
    docDesc,        \* <meta name="description"> content
    translations,   \* i18n: the loaded table, language -> key -> text
    currentLang,    \* i18n: active language
    storage,        \* localStorage item 'ccc-lang'
    urlLang,        \* ?lang= parameter of the page URL
    navLanguage,    \* navigator.language, as a sequence of characters
    i18nPc,         \* position of i18n.init(): "load", "ready"
    domLang,        \* document.documentElement.lang
    domText,        \* text shown by the [data-i18n] elements in the document
    langBtn,        \* [data-lang-btn] buttons marked active / aria-pressed
    contactForm,    \* contact form: field values and what the page shows
    submitPc,       \* position of handleSubmit: "idle", "fetch" (await)
    gallery,        \* home gallery: cards shown, indicator, card requests
    rendered,       \* history: the view of the renderPage call executed last
    last            \* the operation that produced this state, with its result

vars == <<locationHash, pageCache, content, pending, fetchCount, routerReady,
          activeNav, docTitle, docDesc, translations, currentLang, storage,
          urlLang, navLanguage, i18nPc, domLang, domText, langBtn,
          contactForm, submitPc, gallery, rendered, last>>

routerVars == <<locationHash, pageCache, content, pending, fetchCount,
                routerReady, activeNav>>

envVars == <<urlLang, navLanguage>>

formVars == <<contactForm, submitPc>>

-----------------------------------------------------------------------------
(* Bounds of the exploration *)

\* navigations that may be suspended at an await at the same time
MaxPending == 2

\* fetch() calls explored per route
MaxFetches == 2

-----------------------------------------------------------------------------
(* JavaScript values *)

Undefined == "<undefined>"

NoItem == "<null>"

\* Members every plain object ({} or an object literal) inherits.
ObjectPrototypeKeys ==
    {"constructor", "toString", "toLocaleString", "valueOf", "hasOwnProperty",
     "isPrototypeOf", "propertyIsEnumerable", "__proto__", "__defineGetter__",
     "__defineSetter__", "__lookupGetter__", "__lookupSetter__"}

\* The inherited member, as the text it turns into when used as markup.
Inherited(key) ==
    IF key = "__proto__" THEN "[object Object]"
    ELSE IF key = "constructor" THEN "function Object() { [native code] }"
    ELSE "function " \o key \o "() { [native code] }"

\* obj[key] on a plain object: own property, else inherited member, else
\* undefined.
Get(obj, key) ==
    IF key \in DOMAIN obj THEN obj[key]
    ELSE IF key \in ObjectPrototypeKeys THEN Inherited(key)
    ELSE Undefined

\* The truthiness test of `if (v)`, `v ? a : b` and `a || b`.
Truthy(v) == v # Undefined /\ v # NoItem /\ v # ""

\* Array.prototype.includes on an array of strings.
Includes(arr, v) == \E i \in 1..Len(arr) : arr[i] = v

RECURSIVE Join(_)
\* The string spelled by a sequence of characters.
Join(chars) == IF chars = <<>> THEN "" ELSE Head(chars) \o Join(Tail(chars))

-----------------------------------------------------------------------------
(* router.js: configuration *)

ROUTES ==
    [r \in {"home", "about", "services", "contact", "imprint"} |->
        "pages/" \o r \o ".html"]

DEFAULT_ROUTE == "home"

\* The route names registered in ROUTES.
RegisteredRoutes == DOMAIN ROUTES


-----------------------------------------------------------------------------
(* i18n.js: configuration and lookup *)

SUPPORTED_LANGS == <<"en", "de", "pt">>

FALLBACK_LANG == "en"

\* A translations.json: "en" has every key in use, "de" has some, "pt" has
\* no table.  No language has a '.meta' key other than page.home.meta.
TranslationsJson ==
    [l \in {"en", "de"} |->
        IF l = "en"
        THEN [k \in {"nav.about", "hero.title", "lang.html", "page.home.title",
                     "page.home.meta", "page.about.title"} |->
                 CASE k = "lang.html" -> "en"
                   [] k = "nav.about" -> "About us"
                   [] k = "hero.title" -> "Welcome"
                   [] k = "page.home.title" -> "Home | CCC"
                   [] k = "page.home.meta" -> "Consulting"
                   [] OTHER -> "About | CCC"]
        ELSE [k \in {"nav.about", "lang.html", "page.home.title"} |->
                 CASE k = "lang.html" -> "de"
                   [] k = "nav.about" -> "Ueber uns"
                   [] OTHER -> "Startseite | CCC"]]

\* The table before load() and after a failed load: let translations = {}.
EmptyTable == [l \in {} |-> [k \in {} |-> ""]]

\* translations[lang]?.[key]
LookupIn(tr, lang, key) ==
    IF lang \in DOMAIN tr THEN Get(tr[lang], key) ELSE Undefined

\* t(key) under table tr and active language lang.
tIn(tr, lang, key) ==
    LET value == LookupIn(tr, lang, key)
        fallback == LookupIn(tr, FALLBACK_LANG, key)
    IN  IF value # Undefined THEN value
        ELSE IF fallback # Undefined THEN fallback
        ELSE key

t(key) == tIn(translations, currentLang, key)

-----------------------------------------------------------------------------
(* The document *)

\* data-i18n keys of the elements index.html holds outside the content area.
StaticI18nKeys == {"nav.about"}

\* data-i18n keys of the elements a fragment's markup holds.
FragmentI18nKeys(html) == IF html = "A" THEN {"hero.title"} ELSE {}

\* data-page values of the navigation links of index.html.
NavLinks == {"home", "about", "contact"}

\* data-lang-btn values of the language buttons of index.html.
LangButtons == {"en", "de", "pt"}

\* The [data-i18n] elements in the document when the content area holds c.
I18nKeysOf(c) ==
    StaticI18nKeys \cup (IF c.view = "page" THEN FragmentI18nKeys(c.html) ELSE {})

\* updateDOM(): element texts, <html lang>, active language button.
updateDOMText(tr, lang, c) == [k \in I18nKeysOf(c) |-> tIn(tr, lang, k)]

updateDOMLang(tr, lang) ==
    LET v == tIn(tr, lang, "lang.html") IN IF Truthy(v) THEN v ELSE lang

updateDOMBtn(lang) == {b \in LangButtons : b = lang}

\* The contact form as pages/contact.html holds it: empty inputs, no marks,
\* both messages hidden.
FreshForm ==
    [present |-> TRUE, bound |-> FALSE,
     gotcha |-> "", name |-> <<>>, email |-> <<>>, message |-> <<>>,
     hasError |-> {}, isLoading |-> FALSE, disabled |-> FALSE,
     btnHidden |-> FALSE, formHidden |-> FALSE, successHidden |-> TRUE,
     errorHidden |-> TRUE]

\* The document holds no element with id contact-form.
NoForm == [FreshForm EXCEPT !.present = FALSE]

\* The fragment of the contact route holds the element with id
\* contact-form.
FragmentHasForm(html, route) == route = "contact" /\ html = "A"

\* The contact form in the document when the content area holds c: the
\* elements innerHTML has just created, with no listener bound to them.
FormIn(c) ==
    IF c.view = "page" /\ FragmentHasForm(c.html, c.route)
    THEN FreshForm ELSE NoForm

\* init(): binds handleSubmit to the submit event of the form, if the
\* document holds the form.
contactInit(f) == IF f.present THEN [f EXCEPT !.bound = TRUE] ELSE f

\* The 'pageloaded' listener of contact.js, run for the events dispatched
\* on the document while the form is f.
onPageLoaded(events, f) ==
    IF \E i \in 1..Len(events) : events[i] = "pageloaded"
    THEN contactInit(f) ELSE f

-----------------------------------------------------------------------------
(* router.js: views *)

InitialView == [view |-> "initial", route |-> "", html |-> "", link |-> ""]

showLoading == [view |-> "loading", route |-> "", html |-> "", link |-> ""]

\* Variant: the recovery link points back at the failed route.
showErrorLinkToRoute(route) ==
    [view |-> "error", route |-> route, html |-> "", link |-> "#" \o route]

showError(route) ==
    [view |-> "error", route |-> route, html |-> "", link |-> "#home"]

PageView(html, route) ==
    [view |-> "page", route |-> route, html |-> html, link |-> ""]

\* Variant: the matching links are marked and no other link is unmarked.
updateActiveNavLinkAddsOnly(route) ==
    activeNav \cup {l \in NavLinks : l = route}

updateActiveNavLink(route) == {l \in NavLinks : l = route}

\* Variant: the title is assigned without comparing it with the key.
updatePageMetaTitleUnchecked(tr, lang, route, old) ==
    tIn(tr, lang, "page." \o route \o ".title")

\* updatePageMeta(route): the new title and description.
updatePageMetaTitle(tr, lang, route, old) ==
    LET titleKey == "page." \o route \o ".title"
        title == tIn(tr, lang, titleKey)
    IN  IF title # titleKey THEN title ELSE old

updatePageMetaDesc(tr, lang, route, old) ==
    LET metaKey == "page." \o route \o ".meta"
        desc == tIn(tr, lang, metaKey)
    IN  IF desc # metaKey THEN desc ELSE old

\* Variant: the home initializer is called whatever the route is.
initPageScriptsEveryRoute(route) ==
    <<"main.initScrollAnimations", "homePage.init">>

\* initPageScripts(route): the initializers it calls, in order.
initPageScripts(route) ==
    <<"main.initScrollAnimations">> \o
    (IF route = "home" THEN <<"homePage.init">> ELSE <<>>)

\* slice(1) of the location hash.
Slice1(h) == SubSeq(h, 2, Len(h))

\* getCurrentRoute() when window.location.hash is h.
RouteOf(h) ==
    LET hash == Join(Slice1(h))
    IN  IF Truthy(Get(ROUTES, hash)) THEN hash ELSE DEFAULT_ROUTE

getCurrentRoute == RouteOf(locationHash)


-----------------------------------------------------------------------------
(* i18n.js: language detection *)

\* navigator.language when the user agent defines none.
NavUndefined == <<Undefined>>

RECURSIVE SplitFirst(_)
\* split('-')[0]: the characters before the first '-'.
SplitFirst(chars) ==
    IF chars = <<>> \/ Head(chars) = "-" THEN <<>>
    ELSE <<Head(chars)>> \o SplitFirst(Tail(chars))

\* Variant: the stored item is taken without the supported-language test.
detectLanguageTrustsStored(url, saved, nav) ==
    LET browserLang == IF nav = NavUndefined THEN Undefined
                       ELSE Join(SplitFirst(nav))
    IN  IF Truthy(url) /\ Includes(SUPPORTED_LANGS, url) THEN url
        ELSE IF Truthy(saved) THEN saved
        ELSE IF Truthy(browserLang) /\ Includes(SUPPORTED_LANGS, browserLang)
             THEN browserLang
        ELSE FALLBACK_LANG

\* detectLanguage() for the URL parameter, the stored item and the locale.
detectLanguage(url, saved, nav) ==
    LET browserLang == IF nav = NavUndefined THEN Undefined
                       ELSE Join(SplitFirst(nav))
    IN  IF Truthy(url) /\ Includes(SUPPORTED_LANGS, url) THEN url
        ELSE IF Truthy(saved) /\ Includes(SUPPORTED_LANGS, saved) THEN saved
        ELSE IF Truthy(browserLang) /\ Includes(SUPPORTED_LANGS, browserLang)
             THEN browserLang
        ELSE FALLBACK_LANG

-----------------------------------------------------------------------------
(* Observation of the last operation *)

NoObs ==
    [op |-> "", arg |-> "", route |-> "", hops |-> 0, fetched |-> FALSE,
     ok |-> TRUE, html |-> "", superseded |-> FALSE, inits |-> <<>>,
     events |-> <<>>, result |-> "", loading |-> FALSE]

-----------------------------------------------------------------------------
(* The translated part of the document, as one value *)

DomI18n == [text |-> domText, lang |-> domLang, btn |-> langBtn]

\* updateDOM() under table tr and language lang with content c.
updateDOM(tr, lang, c) ==
    [text |-> updateDOMText(tr, lang, c),
     lang |-> updateDOMLang(tr, lang),
     btn  |-> updateDOMBtn(lang)]

\* The fragment's elements leave the document with the old markup.
DropFragment(d) ==
    [d EXCEPT !.text = [k \in StaticI18nKeys |-> d.text[k]]]

SetDom(d) == domText' = d.text /\ domLang' = d.lang /\ langBtn' = d.btn

-----------------------------------------------------------------------------
(* home.js: the card gallery of the home page *)

\* const cards: the card fragments, in the order they are to be shown.
cards ==
    <<"monitoring-evaluation.html", "project-management.html",
      "capacity-building.html">>

\* No #wid-gallery in the document.
NoGallery ==
    [present |-> FALSE, loading |-> FALSE, shown |-> <<>>, fetches |-> <<>>,
     order |-> <<>>]

\* The gallery as the home fragment holds it: #wid-gallery without cards,
\* #wid-loading in place, no request issued.  shown lists the markup of the
\* .wid-card-wrapper children; fetches holds one promise per card once
\* init() has run; order notes the cards in the order their promises
\* settled.
FreshGallery == [NoGallery EXCEPT !.present = TRUE, !.loading = TRUE]

\* The markup of the home fragment holds the gallery.
FragmentHasGallery(html, route) == route = "home" /\ html = "A"

\* The gallery in the document when the content area holds c: the elements
\* of an earlier fragment, and what was appended to them, are gone.
GalleryIn(c) ==
    IF c.view = "page" /\ FragmentHasGallery(c.html, c.route)
    THEN FreshGallery ELSE NoGallery

\* The promise of one card: pc is "fetch" (fetch pending), "text"
\* (res.text() pending) or "done", result what the chain resolved to.
CardPromise(pc, result) == [pc |-> pc, result |-> result]

\* homePage.init() up to its await: nothing without a gallery, else one
\* fetch per card.
homeInit(g) ==
    IF ~g.present THEN g
    ELSE [g EXCEPT !.fetches =
                     [i \in 1..Len(cards) |-> CardPromise("fetch", Undefined)]]

\* The initializers of a render, applied to the gallery of the fragment.
runPageScripts(inits, g) ==
    IF Includes(inits, "homePage.init") THEN homeInit(g) ELSE g

\* Every promise handed to Promise.all has resolved.
allSettled(g) == \A i \in DOMAIN g.fetches : g.fetches[i].pc = "done"

\* Variant: the results are taken in the order the promises settled.
promiseAllInCompletionOrder(g) ==
    [k \in 1..Len(g.order) |-> g.fetches[g.order[k]].result]

\* await Promise.all(fetches): the results, in the order of the array.
promiseAll(g) == [i \in 1..Len(g.fetches) |-> g.fetches[i].result]

RECURSIVE appendCards(_, _)
\* results.forEach: a wrapper per result that is not null, appended in turn.
appendCards(shown, results) ==
    IF results = <<>> THEN shown
    ELSE appendCards(IF Head(results) = NoItem THEN shown
                     ELSE Append(shown, Head(results)),
                     Tail(results))

\* The promise of card i resolves to result (null after the catch); if it
\* was the last one, init() resumes: the indicator is removed and the cards
\* are appended.
cardSettled(g, i, result) ==
    LET h == [g EXCEPT !.fetches[i] = CardPromise("done", result),
                       !.order = Append(@, i)]
    IN  IF allSettled(h)
        THEN [h EXCEPT !.loading = FALSE,
                       !.shown = appendCards(h.shown, promiseAll(h))]
        ELSE h

-----------------------------------------------------------------------------
(* router.js: navigate and renderPage *)

\* Navigations suspended at an await: [route, stage, superseded].  stage is
\* "fetch" (await fetch) or "text" (await response.text()); superseded notes
\* that a later navigation has started since.
CountOf(bag, e) == IF e \in DOMAIN bag THEN bag[e] ELSE 0

Supersede(bag) ==
    LET marked == {[n EXCEPT !.superseded = TRUE] : n \in BagToSet(bag)}
    IN  [m \in marked |->
            CountOf(bag, m) + CountOf(bag, [m EXCEPT !.superseded = FALSE])]

RECURSIVE NavChain(_)
\* The routes navigate(route) is entered with: route, then DEFAULT_ROUTE for
\* as long as the route has no file path.
NavChain(route) ==
    IF Truthy(Get(ROUTES, route)) THEN <<route>>
    ELSE <<route>> \o NavChain(DEFAULT_ROUTE)

\* The events renderPage and initPageScripts dispatch on the document.
renderPageEvents == <<>>

\* Variant: a navigation that is no longer the current route discards its
\* result instead of rendering it.
renderPageIfCurrent(html, route, tr, lang) ==
    IF route = getCurrentRoute
    THEN /\ content' = PageView(html, route)
         /\ contactForm' = onPageLoaded(renderPageEvents,
                                        FormIn(PageView(html, route)))
         /\ gallery' = runPageScripts(initPageScripts(route),
                                      GalleryIn(PageView(html, route)))
         /\ rendered' = PageView(html, route)
         /\ SetDom(updateDOM(tr, lang, PageView(html, route)))
         /\ activeNav' = updateActiveNavLink(route)
         /\ docTitle' = updatePageMetaTitle(tr, lang, route, docTitle)
         /\ docDesc' = updatePageMetaDesc(tr, lang, route, docDesc)
    ELSE UNCHANGED <<content, contactForm, gallery, rendered, domText, domLang,
                     langBtn, activeNav, docTitle, docDesc>>

\* renderPage(html, route) under table tr and language lang.
renderPage(html, route, tr, lang) ==
    /\ content' = PageView(html, route)
    /\ contactForm' = onPageLoaded(renderPageEvents,
                                   FormIn(PageView(html, route)))
    /\ gallery' = runPageScripts(initPageScripts(route),
                                 GalleryIn(PageView(html, route)))
    /\ rendered' = PageView(html, route)
    /\ SetDom(updateDOM(tr, lang, PageView(html, route)))
    /\ activeNav' = updateActiveNavLink(route)
    /\ docTitle' = updatePageMetaTitle(tr, lang, route, docTitle)
    /\ docDesc' = updatePageMetaDesc(tr, lang, route, docDesc)

\* Variant: the catch branch logs the error and shows nothing.
errorPageSilent(route, d) ==
    UNCHANGED <<content, contactForm, gallery, domText, domLang, langBtn, rendered,
                activeNav, docTitle, docDesc>>

\* The catch branch of navigate: showError(route), nothing else.
errorPage(route, d) ==
    /\ content' = showError(route)
    /\ contactForm' = FormIn(showError(route))
    /\ gallery' = GalleryIn(showError(route))
    /\ SetDom(DropFragment(d))
    /\ UNCHANGED <<rendered, activeNav, docTitle, docDesc>>

\* Variant: a stored fragment is never taken as a hit.
cacheHitNever(route) ==
    route \notin DOMAIN pageCache /\ Truthy(Get(pageCache, route))

\* if (pageCache[route]): the cached fragment is used.
cacheHit(route) == Truthy(Get(pageCache, route))

\* Variant: showLoading() is called in the cache-miss branch only, so a
\* cached fragment replaces the old one without the placeholder in between.
navigateLoadingOnMiss(op, route, tr, lang, d) ==
    LET chain == NavChain(route)
        target == chain[Len(chain)]
        obs == [NoObs EXCEPT !.op = op, !.arg = route, !.route = target,
                             !.hops = Len(chain) - 1]
    IN  IF cacheHit(target)
        THEN /\ renderPage(Get(pageCache, target), target, tr, lang)
             /\ pending' = Supersede(pending)
             /\ UNCHANGED <<pageCache, fetchCount>>
             /\ last' = [obs EXCEPT !.html = Get(pageCache, target),
                                    !.inits = initPageScripts(target)]
        ELSE /\ BagCardinality(pending) < MaxPending
             /\ fetchCount[target] < MaxFetches
             /\ content' = showLoading
             /\ contactForm' = FormIn(showLoading)
             /\ gallery' = GalleryIn(showLoading)
             /\ SetDom(DropFragment(d))
             /\ pending' = Supersede(pending) (+)
                    SetToBag({[route |-> target, stage |-> "fetch",
                               superseded |-> FALSE]})
             /\ fetchCount' = [fetchCount EXCEPT ![target] = @ + 1]
             /\ UNCHANGED <<pageCache, rendered, activeNav, docTitle,
                            docDesc>>
             /\ last' = [obs EXCEPT !.fetched = TRUE, !.loading = TRUE]

\* navigate(route), up to its first await, called by operation op; tr, lang,
\* d are the table, the language and the translated document at the call.
\* showLoading() runs before the cache test, so also ahead of a render from
\* the cache.
navigate(op, route, tr, lang, d) ==
    LET chain == NavChain(route)
        target == chain[Len(chain)]
        obs == [NoObs EXCEPT !.op = op, !.arg = route, !.route = target,
                             !.hops = Len(chain) - 1, !.loading = TRUE]
    IN  IF cacheHit(target)
        THEN /\ renderPage(Get(pageCache, target), target, tr, lang)
             /\ pending' = Supersede(pending)
             /\ UNCHANGED <<pageCache, fetchCount>>
             /\ last' = [obs EXCEPT !.html = Get(pageCache, target),
                                    !.inits = initPageScripts(target)]
        ELSE /\ BagCardinality(pending) < MaxPending
             /\ fetchCount[target] < MaxFetches
             /\ content' = showLoading
             /\ contactForm' = FormIn(showLoading)
             /\ gallery' = GalleryIn(showLoading)
             /\ SetDom(DropFragment(d))
             /\ pending' = Supersede(pending) (+)
                    SetToBag({[route |-> target, stage |-> "fetch",
                               superseded |-> FALSE]})
             /\ fetchCount' = [fetchCount EXCEPT ![target] = @ + 1]
             /\ UNCHANGED <<pageCache, rendered, activeNav, docTitle,
                            docDesc>>
             /\ last' = [obs EXCEPT !.fetched = TRUE]


-----------------------------------------------------------------------------
(* i18n.js: setLanguage *)

\* Variant: the language is set without being written to localStorage.
setLanguageBodyNoPersist == <<"assign", "updateDOM", "dispatch">>

\* Variant: the event is dispatched before the state is updated.
setLanguageBodyDispatchFirst == <<"dispatch", "assign", "persist", "updateDOM">>

\* The statements of setLanguage after its guard, in program order.
setLanguageBody == <<"assign", "persist", "updateDOM", "dispatch">>

\* Variant: the listener navigates to the current route again, as the
\* hashchange listener does.
onLangChangeNavigates(st) ==
    IF routerReady
    THEN [st EXCEPT
            !.content = IF cacheHit(getCurrentRoute)
                        THEN PageView(Get(pageCache, getCurrentRoute),
                                      getCurrentRoute)
                        ELSE showLoading,
            !.inits = IF cacheHit(getCurrentRoute)
                      THEN initPageScripts(getCurrentRoute) ELSE <<>>,
            !.title = updatePageMetaTitle(translations, st.cur,
                                          getCurrentRoute, st.title),
            !.desc = updatePageMetaDesc(translations, st.cur,
                                        getCurrentRoute, st.desc)]
    ELSE st

\* router.js langchange listener: updatePageMeta(getCurrentRoute()).
onLangChange(st) ==
    IF routerReady
    THEN [st EXCEPT
            !.title = updatePageMetaTitle(translations, st.cur,
                                          getCurrentRoute, st.title),
            !.desc = updatePageMetaDesc(translations, st.cur,
                                        getCurrentRoute, st.desc)]
    ELSE st

\* One statement of setLanguage(lang) on the state st.  A dispatched event
\* is recorded with what a listener reads while it is dispatched.
setLanguageStmt(stmt, lang, st) ==
    CASE stmt = "assign"    -> [st EXCEPT !.cur = lang]
      [] stmt = "persist"   -> [st EXCEPT !.stored = lang]
      [] stmt = "updateDOM" ->
            [st EXCEPT !.dom = updateDOM(translations, st.cur, content)]
      [] stmt = "dispatch"  ->
            onLangChange(
                [st EXCEPT !.events = Append(@,
                    [type |-> "langchange", lang |-> lang,
                     seenLang |-> st.cur, seenStored |-> st.stored,
                     seenDom |-> st.dom])])

RECURSIVE runStatements(_, _, _)
runStatements(stmts, lang, st) ==
    IF stmts = <<>> THEN st
    ELSE runStatements(Tail(stmts), lang,
                       setLanguageStmt(Head(stmts), lang, st))

\* Variant: no test of the language against SUPPORTED_LANGS.
setLanguageUnguarded(lang) ==
    runStatements(setLanguageBody, lang,
                  [cur |-> currentLang, stored |-> storage, dom |-> DomI18n,
                   title |-> docTitle, desc |-> docDesc, events |-> <<>>,
                   content |-> content, inits |-> <<>>])

\* setLanguage(lang): the state it leaves.  content and inits are what the
\* listeners of the event leave in the content region and the initializers
\* they call.
setLanguage(lang) ==
    LET st == [cur |-> currentLang, stored |-> storage, dom |-> DomI18n,
               title |-> docTitle, desc |-> docDesc, events |-> <<>>,
               content |-> content, inits |-> <<>>]
    IN  IF ~Includes(SUPPORTED_LANGS, lang) THEN st
        ELSE runStatements(setLanguageBody, lang, st)

-----------------------------------------------------------------------------
(* contact.js: validation and submission *)

\* The fields validate checks, named by the input in their .form-field.
FormFields == {"name", "email", "message"}

\* Characters String.prototype.trim removes and \s matches.
WhiteSpace == {" ", "\t", "\n"}

RECURSIVE TrimStart(_)
TrimStart(chars) ==
    IF chars # <<>> /\ Head(chars) \in WhiteSpace
    THEN TrimStart(Tail(chars)) ELSE chars

RECURSIVE TrimEnd(_)
TrimEnd(chars) ==
    IF chars # <<>> /\ chars[Len(chars)] \in WhiteSpace
    THEN TrimEnd(SubSeq(chars, 1, Len(chars) - 1)) ELSE chars

\* value.trim()
trim(chars) == TrimEnd(TrimStart(chars))

\* [^\s@]+ matches the whole of chars.
NoSpaceNoAt(chars) ==
    /\ chars # <<>>
    /\ \A i \in 1..Len(chars) : chars[i] \notin WhiteSpace \cup {"@"}

\* emailRegex.test(chars) for /^[^\s@]+@[^\s@]+\.[^\s@]+$/
emailRegexTest(chars) ==
    \E i, j \in 1..Len(chars) :
        /\ i < j
        /\ chars[i] = "@" /\ chars[j] = "."
        /\ NoSpaceNoAt(SubSeq(chars, 1, i - 1))
        /\ NoSpaceNoAt(SubSeq(chars, i + 1, j - 1))
        /\ NoSpaceNoAt(SubSeq(chars, j + 1, Len(chars)))

\* The fields validate adds has-error to.
invalidFields(f) ==
    {x \in FormFields :
        \/ x = "name" /\ (trim(f.name) = <<>> \/ Len(trim(f.name)) < 2)
        \/ x = "email" /\ (trim(f.email) = <<>>
                             \/ ~emailRegexTest(trim(f.email)))
        \/ x = "message" /\ (trim(f.message) = <<>>
                               \/ Len(trim(f.message)) < 10)}

\* Variant: the marks of an earlier validation are not removed first.
validateKeepsMarks(f) ==
    [f EXCEPT !.hasError = f.hasError \cup invalidFields(f)]

\* validate(form): the form with the marks it leaves.  The call returns
\* true when invalidFields is empty.
validate(f) == [f EXCEPT !.hasError = invalidFields(f)]

setLoading(f, loading) ==
    [f EXCEPT !.isLoading = loading, !.disabled = loading]

showSuccess(f) ==
    [f EXCEPT !.formHidden = TRUE, !.btnHidden = TRUE,
              !.successHidden = FALSE]

\* Variant: the fields are validated before the honeypot is looked at.
handleSubmitValidatesFirst(f) ==
    LET g == validate(f)
    IN  IF invalidFields(f) # {}
        THEN [form |-> g, pc |-> "idle", fetched |-> FALSE]
        ELSE IF Truthy(f.gotcha)
        THEN [form |-> showSuccess(g), pc |-> "idle", fetched |-> FALSE]
        ELSE [form |-> [setLoading(g, TRUE) EXCEPT !.errorHidden = TRUE],
              pc |-> "fetch", fetched |-> TRUE]

\* handleSubmit(e) up to its return or its await fetch(FORMSPREE_URL): the
\* form it leaves, where it stands, and whether it issued the request.
handleSubmit(f) ==
    IF Truthy(f.gotcha)
    THEN [form |-> showSuccess(f), pc |-> "idle", fetched |-> FALSE]
    ELSE LET g == validate(f)
         IN  IF invalidFields(f) # {}
             THEN [form |-> g, pc |-> "idle", fetched |-> FALSE]
             ELSE [form |-> [setLoading(g, TRUE) EXCEPT !.errorHidden = TRUE],
                   pc |-> "fetch", fetched |-> TRUE]

\* Variant: the catch block shows the message and leaves the button as it is.
submitSettledKeepsLoading(f, ok) ==
    IF ok THEN showSuccess(f) ELSE [f EXCEPT !.errorHidden = FALSE]

\* handleSubmit after the await: response.ok, or the catch block for a
\* rejected fetch and for a response that is not ok.
submitSettled(f, ok) ==
    IF ok THEN showSuccess(f)
    ELSE [setLoading(f, FALSE) EXCEPT !.errorHidden = FALSE]

-----------------------------------------------------------------------------
(* Inputs *)

\* Location hashes the user visits.
Hashes == {<<>>, <<"#", "about">>, <<"#", "constructor">>, <<"#", "nope">>}

\* Arguments of programmatic router.navigate calls.
NavigateArgs == {"about", "nope", "constructor"}

\* Location hashes of a visit to the about and the contact page.
SiteHashes == {<<>>, <<"#", "about">>, <<"#", "contact">>}

\* Languages chosen with the language buttons during such a visit.
SiteLangs == {"en", "de"}

\* Bodies a fragment request is answered with.
Texts == {"", "A"}

\* Arguments of setLanguage: the language buttons and an unsupported code.
LangArgs == {"en", "de", "pt", "fr"}

\* Keys t is called with.
TKeys == {"nav.about", "hero.title", "page.home.title", "missing.key",
          "constructor"}

\* Bodies the translations request is answered with.
TranslationFiles ==
    {TranslationsJson, [l \in {"de"} |-> TranslationsJson["de"]]}

\* Values of the ?lang= parameter: absent, empty, supported, unsupported.
UrlLangs == {NoItem, "", "de", "it"}

\* Values of the stored 'ccc-lang' item: absent, supported, unsupported.
StoredLangs == {NoItem, "pt", "fr"}

\* Values of navigator.language.
Locales ==
    {NavUndefined, <<"d", "e", "-", "D", "E">>, <<"p", "t">>,
     <<"f", "r", "-", "F", "R">>}

\* Values of the hidden _gotcha input: left empty, or filled in by a bot.
GotchaValues == {"", " ", "http://spam.example"}

\* Values typed into the name input.
NameValues == {<<>>, <<" ", "A", " ">>, <<"A", "l">>}

\* Values typed into the email input.
EmailValues ==
    {<<>>,
     <<"a", "@", "b">>,
     <<"a", "@", "b", ".", "c">>,
     <<" ", "a", "@", "b", ".", "c", " ">>,
     <<"a", " ", "@", "b", ".", "c">>,
     <<"a", "@", "b", ".">>}

\* Values typed into the message textarea: 5 characters, 10 characters,
\* and 9 characters between two blanks.
MessageValues ==
    {<<"h", "e", "l", "l", "o">>,
     <<"h", "e", "l", "l", "o", " ", "y", "o", "u", "!">>,
     <<" ", "h", "e", "l", "l", "o", " ", "y", "o", "u", " ">>}

-----------------------------------------------------------------------------
(* Start-up: main.init -> i18n.init -> load, then router.init *)

\* Variant: router.init binds the listeners and leaves the first navigation
\* to a later event.
finishStartupBindsOnly(tr) ==
    LET lang == detectLanguage(urlLang, storage, navLanguage)
    IN  /\ translations' = tr
        /\ currentLang' = lang
        /\ i18nPc' = "ready"
        /\ routerReady' = TRUE
        /\ SetDom(updateDOM(tr, lang, content))
        /\ last' = [NoObs EXCEPT !.op = "init",
                                 !.arg = RouteOf(locationHash)]
        /\ UNCHANGED <<locationHash, pageCache, content, pending, fetchCount,
                       activeNav, docTitle, docDesc, storage, envVars,
                       formVars, gallery, rendered>>

\* What follows load() in i18n.init and main.init, run in one piece once
\* load() has settled with table tr: detectLanguage, updateDOM, router.init.
finishStartup(tr) ==
    LET lang == detectLanguage(urlLang, storage, navLanguage)
    IN  /\ translations' = tr
        /\ currentLang' = lang
        /\ i18nPc' = "ready"
        /\ routerReady' = TRUE
        /\ navigate("init", RouteOf(locationHash),
                    tr, lang, updateDOM(tr, lang, content))
        /\ UNCHANGED <<locationHash, storage, envVars, submitPc>>

\* Variant: load() has no catch, so a failed request rejects i18n.init and
\* main.init stops before router.init.
TranslationsResponseFatal(ok) ==
    /\ i18nPc = "fetch"
    /\ i18nPc' = IF ok THEN "json" ELSE "failed"
    /\ last' = [NoObs EXCEPT !.op = "translations.response", !.ok = ok]
    /\ UNCHANGED <<routerVars, docTitle, docDesc, translations, currentLang,
                   storage, envVars, formVars, gallery, rendered, domLang,
                   domText, langBtn>>

\* Variant: main.init does not await i18n.init, so router.init runs, under
\* the table and language of that moment, while response.json() is awaited.
TranslationsResponseStartsRouter(ok) ==
    /\ i18nPc = "fetch"
    /\ IF ok
       THEN /\ i18nPc' = "json"
            /\ routerReady' = TRUE
            /\ navigate("init", RouteOf(locationHash), translations,
                        currentLang, DomI18n)
            /\ UNCHANGED <<locationHash, translations, currentLang, storage,
                           envVars, submitPc>>
       ELSE finishStartup(translations)

\* fetch('i18n/translations.json') settles.
TranslationsResponse(ok) ==
    /\ i18nPc = "fetch"
    /\ IF ok
       THEN /\ i18nPc' = "json"
            /\ last' = [NoObs EXCEPT !.op = "translations.response"]
            /\ UNCHANGED <<routerVars, docTitle, docDesc, translations,
                           currentLang, storage, envVars, formVars,
                           gallery, rendered, domLang, domText, langBtn>>
       ELSE finishStartup(translations)

\* response.json() settles with a table.
TranslationsParsed(table) ==
    /\ i18nPc = "json"
    /\ finishStartup(table)

\* response.json() rejects.
TranslationsParseFail ==
    /\ i18nPc = "json"
    /\ finishStartup(translations)

-----------------------------------------------------------------------------
(* Events and calls after start-up *)

\* The hash changes to h and the hashchange listener runs.
HashChange(h) ==
    /\ routerReady
    /\ h # locationHash
    /\ locationHash' = h
    /\ navigate("navigate", RouteOf(h), translations, currentLang, DomI18n)
    /\ UNCHANGED <<routerReady, translations, currentLang, storage, envVars,
                   submitPc, i18nPc>>

\* The history entry with hash h becomes active and the popstate listener
\* runs.
PopState(h) ==
    /\ routerReady
    /\ locationHash' = h
    /\ navigate("navigate", RouteOf(h), translations, currentLang, DomI18n)
    /\ UNCHANGED <<routerReady, translations, currentLang, storage, envVars,
                   submitPc, i18nPc>>

\* Variant: a call is ignored while an earlier navigation is pending.
NavigateWhenIdle(route) ==
    /\ routerReady
    /\ pending = EmptyBag
    /\ navigate("navigate", route, translations, currentLang, DomI18n)
    /\ UNCHANGED <<locationHash, routerReady, translations, currentLang,
                   storage, envVars, submitPc, i18nPc>>

\* router.navigate(route) called from outside.
Navigate(route) ==
    /\ routerReady
    /\ navigate("navigate", route, translations, currentLang, DomI18n)
    /\ UNCHANGED <<locationHash, routerReady, translations, currentLang,
                   storage, envVars, submitPc, i18nPc>>

\* await fetch(filePath) settles for the suspended navigation n.
FetchResponse(n, ok) ==
    /\ n \in BagToSet(pending)
    /\ n.stage = "fetch"
    /\ IF ok
       THEN /\ pending' = (pending (-) SetToBag({n})) (+)
                          SetToBag({[n EXCEPT !.stage = "text"]})
            /\ last' = [NoObs EXCEPT !.op = "response", !.route = n.route]
            /\ UNCHANGED <<content, contactForm, gallery, rendered, domText,
                           domLang, langBtn, activeNav, docTitle, docDesc>>
       ELSE /\ pending' = pending (-) SetToBag({n})
            /\ errorPage(n.route, DomI18n)
            /\ last' = [NoObs EXCEPT !.op = "settled", !.route = n.route,
                                     !.ok = FALSE,
                                     !.superseded = n.superseded]
    /\ UNCHANGED <<locationHash, pageCache, fetchCount, routerReady,
                   translations, currentLang, storage, envVars, submitPc,
                   i18nPc>>

\* await response.text() yields html for the suspended navigation n.
TextDone(n, html) ==
    /\ n \in BagToSet(pending)
    /\ n.stage = "text"
    /\ pending' = pending (-) SetToBag({n})
    /\ pageCache' = (n.route :> html) @@ pageCache
    /\ renderPage(html, n.route, translations, currentLang)
    /\ last' = [NoObs EXCEPT !.op = "settled", !.route = n.route,
                             !.html = html, !.superseded = n.superseded,
                             !.inits = initPageScripts(n.route)]
    /\ UNCHANGED <<locationHash, fetchCount, routerReady, translations,
                   currentLang, storage, envVars, submitPc, i18nPc>>

\* Variant: the catch branch also drops the cached fragment of the route.
TextFailEvicts(n) ==
    /\ n \in BagToSet(pending)
    /\ n.stage = "text"
    /\ pending' = pending (-) SetToBag({n})
    /\ pageCache' = [r \in DOMAIN pageCache \ {n.route} |-> pageCache[r]]
    /\ errorPage(n.route, DomI18n)
    /\ last' = [NoObs EXCEPT !.op = "settled", !.route = n.route,
                             !.ok = FALSE, !.superseded = n.superseded]
    /\ UNCHANGED <<locationHash, fetchCount, routerReady, translations,
                   currentLang, storage, envVars, submitPc, i18nPc>>

\* await response.text() rejects for the suspended navigation n.
TextFail(n) ==
    /\ n \in BagToSet(pending)
    /\ n.stage = "text"
    /\ pending' = pending (-) SetToBag({n})
    /\ errorPage(n.route, DomI18n)
    /\ last' = [NoObs EXCEPT !.op = "settled", !.route = n.route,
                             !.ok = FALSE, !.superseded = n.superseded]
    /\ UNCHANGED <<locationHash, pageCache, fetchCount, routerReady,
                   translations, currentLang, storage, envVars, submitPc,
                   i18nPc>>

\* i18n.setLanguage(lang): a language button, or a call from outside.
SetLanguage(lang) ==
    /\ i18nPc = "ready"
    /\ LET st == setLanguage(lang)
       IN  /\ currentLang' = st.cur
           /\ storage' = st.stored
           /\ SetDom(st.dom)
           /\ docTitle' = st.title
           /\ docDesc' = st.desc
           /\ content' = st.content
           /\ last' = [NoObs EXCEPT !.op = "setLanguage", !.arg = lang,
                                    !.events = st.events,
                                    !.inits = st.inits]
    /\ UNCHANGED <<locationHash, pageCache, pending, fetchCount, routerReady,
                   activeNav, translations, envVars, formVars, gallery,
                   rendered, i18nPc>>

\* i18n.t(key) called from outside.
CallT(key) ==
    /\ last' = [NoObs EXCEPT !.op = "t", !.arg = key, !.result = t(key)]
    /\ UNCHANGED <<routerVars, docTitle, docDesc, translations, currentLang,
                   storage, envVars, formVars, gallery, rendered, i18nPc,
                   domLang, domText, langBtn>>

-----------------------------------------------------------------------------
(* The contact form *)

\* Everything but the form and the observation.
siteVars ==
    <<routerVars, docTitle, docDesc, translations, currentLang, storage,
      envVars, i18nPc, domLang, domText, langBtn, gallery, rendered>>

\* The visitor, or a bot, sets the value of one input.  The inputs are
\* inside the form, which showSuccess hides.
InputGotcha(v) ==
    /\ contactForm.present /\ ~contactForm.formHidden
    /\ contactForm.gotcha # v
    /\ contactForm' = [contactForm EXCEPT !.gotcha = v]
    /\ last' = [NoObs EXCEPT !.op = "input", !.arg = "_gotcha"]
    /\ UNCHANGED <<siteVars, submitPc>>

InputField(field, v) ==
    /\ contactForm.present /\ ~contactForm.formHidden
    /\ contactForm[field] # v
    /\ contactForm' = [contactForm EXCEPT ![field] = v]
    /\ last' = [NoObs EXCEPT !.op = "input", !.arg = field]
    /\ UNCHANGED <<siteVars, submitPc>>

\* The submit event of the form, once init has bound handleSubmit to it:
\* handleSubmit runs to its return or to its await.  The browser sends no
\* submit event for a hidden form or through a disabled submit button.
Submit ==
    /\ contactForm.bound
    /\ ~contactForm.formHidden
    /\ ~contactForm.disabled
    /\ submitPc = "idle"
    /\ LET r == handleSubmit(contactForm)
       IN  /\ contactForm' = r.form
           /\ submitPc' = r.pc
           /\ last' = [NoObs EXCEPT !.op = "submit", !.fetched = r.fetched]
    /\ UNCHANGED siteVars

\* await fetch(FORMSPREE_URL, ...) settles: with a response (ok or not), or
\* rejected.
SubmitResponse(ok) ==
    /\ submitPc = "fetch"
    /\ contactForm' = submitSettled(contactForm, ok)
    /\ submitPc' = "idle"
    /\ last' = [NoObs EXCEPT !.op = "submit.settled", !.ok = ok]
    /\ UNCHANGED siteVars

SubmitRejected ==
    /\ submitPc = "fetch"
    /\ contactForm' = submitSettled(contactForm, FALSE)
    /\ submitPc' = "idle"
    /\ last' = [NoObs EXCEPT !.op = "submit.settled", !.ok = FALSE,
                             !.result = "rejected"]
    /\ UNCHANGED siteVars

-----------------------------------------------------------------------------
(* The card requests of the home gallery *)

\* Everything but the gallery and the observation.
nonGalleryVars ==
    <<routerVars, docTitle, docDesc, translations, currentLang, storage,
      envVars, i18nPc, domLang, domText, langBtn, formVars, rendered>>

\* Bodies the request for card i is answered with: none, or the card.
CardBodies(i) == {"", cards[i]}

\* fetch() of card i settles: a response that is ok goes on to res.text(),
\* any other response and a rejection end in the catch.
CardResponse(i, ok) ==
    /\ i \in DOMAIN gallery.fetches
    /\ gallery.fetches[i].pc = "fetch"
    /\ gallery' = IF ok
                  THEN [gallery EXCEPT
                          !.fetches[i] = CardPromise("text", Undefined)]
                  ELSE cardSettled(gallery, i, NoItem)
    /\ last' = [NoObs EXCEPT !.op = "card.response", !.arg = cards[i],
                             !.ok = ok]
    /\ UNCHANGED nonGalleryVars

\* res.text() of card i yields html.
CardText(i, html) ==
    /\ i \in DOMAIN gallery.fetches
    /\ gallery.fetches[i].pc = "text"
    /\ gallery' = cardSettled(gallery, i, html)
    /\ last' = [NoObs EXCEPT !.op = "card.settled", !.arg = cards[i],
                             !.html = html]
    /\ UNCHANGED nonGalleryVars

\* res.text() of card i rejects.
CardTextFail(i) ==
    /\ i \in DOMAIN gallery.fetches
    /\ gallery.fetches[i].pc = "text"
    /\ gallery' = cardSettled(gallery, i, NoItem)
    /\ last' = [NoObs EXCEPT !.op = "card.settled", !.arg = cards[i],
                             !.ok = FALSE]
    /\ UNCHANGED nonGalleryVars

-----------------------------------------------------------------------------
(* Specifications *)

\* The state once the scripts have been evaluated: main.init() has called
\* i18n.init(), whose load() awaits the translations request.
Start ==
    /\ pageCache = [r \in {} |-> ""]
    /\ content = InitialView
    /\ pending = EmptyBag
    /\ fetchCount = [r \in RegisteredRoutes |-> 0]
    /\ routerReady = FALSE
    /\ activeNav = {}
    /\ docTitle = "CCC"
    /\ docDesc = "CCC site"
    /\ translations = EmptyTable
    /\ currentLang = "en"
    /\ i18nPc = "fetch"
    /\ domLang = "en"
    /\ domText = [k \in StaticI18nKeys |-> "static"]
    /\ langBtn = {}
    /\ submitPc = "idle"
    /\ gallery = NoGallery
    /\ rendered = InitialView
    /\ last = NoObs

Init ==
    /\ Start
    /\ contactForm = NoForm
    /\ locationHash = <<>>
    /\ urlLang = NoItem
    /\ storage = NoItem
    /\ navLanguage = <<"d", "e", "-", "D", "E">>

Next ==
    \/ \E ok \in BOOLEAN : TranslationsResponse(ok)
    \/ TranslationsParsed(TranslationsJson)
    \/ TranslationsParseFail
    \/ \E h \in Hashes : HashChange(h)
    \/ \E h \in Hashes : PopState(h)
    \/ \E r \in NavigateArgs : Navigate(r)
    \/ \E n \in BagToSet(pending), ok \in BOOLEAN : FetchResponse(n, ok)
    \/ \E n \in BagToSet(pending), html \in Texts : TextDone(n, html)
    \/ \E n \in BagToSet(pending) : TextFail(n)

\* A session of navigations, from start-up on.
Spec == Init /\ [][Next]_vars

InitI18n ==
    /\ Start
    /\ contactForm = NoForm
    /\ locationHash \in {<<>>, <<"#", "about">>}
    /\ urlLang \in UrlLangs
    /\ storage \in StoredLangs
    /\ navLanguage \in Locales

NextI18n ==
    \/ \E ok \in BOOLEAN : TranslationsResponse(ok)
    \/ \E table \in TranslationFiles : TranslationsParsed(table)
    \/ TranslationsParseFail
    \/ \E n \in BagToSet(pending), ok \in BOOLEAN : FetchResponse(n, ok)
    \/ \E n \in BagToSet(pending) : TextDone(n, "A")
    \/ \E lang \in LangArgs : SetLanguage(lang)
    \/ \E key \in TKeys : CallT(key)

\* Start-up in any language environment, then language changes and lookups.
SpecI18n == InitI18n /\ [][NextI18n]_vars

NextSite ==
    \/ \E ok \in BOOLEAN : TranslationsResponse(ok)
    \/ TranslationsParsed(TranslationsJson)
    \/ \E h \in SiteHashes : HashChange(h)
    \/ \E n \in BagToSet(pending), ok \in BOOLEAN : FetchResponse(n, ok)
    \/ \E n \in BagToSet(pending) : TextDone(n, "A")
    \/ \E lang \in SiteLangs : SetLanguage(lang)

\* A visit of the home, about and contact pages with language changes.
SpecSite == Init /\ [][NextSite]_vars

NextHome ==
    \/ \E ok \in BOOLEAN : TranslationsResponse(ok)
    \/ TranslationsParsed(TranslationsJson)
    \/ \E h \in {<<>>, <<"#", "about">>} : HashChange(h)
    \/ \E n \in BagToSet(pending) : FetchResponse(n, TRUE)
    \/ \E n \in BagToSet(pending) : TextDone(n, "A")
    \/ \E i \in 1..Len(cards), ok \in BOOLEAN : CardResponse(i, ok)
    \/ \E i \in 1..Len(cards) : \E html \in CardBodies(i) : CardText(i, html)
    \/ \E i \in 1..Len(cards) : CardTextFail(i)

\* A visit of the home page, left for the about page and entered again,
\* with the card requests answered in any order.
SpecHome == Init /\ [][NextHome]_vars

\* contact.js evaluated in a document that holds the contact form:
\* init() has bound handleSubmit to its submit event.
InitForm ==
    /\ Start
    /\ contactForm = contactInit(FreshForm)
    /\ locationHash = <<"#", "contact">>
    /\ urlLang = NoItem
    /\ storage = NoItem
    /\ navLanguage = <<"d", "e", "-", "D", "E">>

NextForm ==
    \/ \E v \in GotchaValues : InputGotcha(v)
    \/ \E v \in NameValues : InputField("name", v)
    \/ \E v \in EmailValues : InputField("email", v)
    \/ \E v \in MessageValues : InputField("message", v)
    \/ Submit
    \/ \E ok \in BOOLEAN : SubmitResponse(ok)
    \/ SubmitRejected

\* A visitor, or a bot, fills in and submits the contact form.
SpecForm == InitForm /\ [][NextForm]_vars


-----------------------------------------------------------------------------
(* Properties of the router *)

\* The fragment identifier of the location hash.
HashId == IF locationHash = <<>> THEN "" ELSE locationHash[2]

\* The five route names of the site.
RouteNames == {"home", "about", "services", "contact", "imprint"}

\* The error view of a route, with its link back to the default route.
ErrorViewOf(route) ==
    [view |-> "error", route |-> route, html |-> "", link |-> "#home"]

\* The last step was a call of navigate.
LastIsNavigate(l) == l.op \in {"init", "navigate"}

\* C1: a hash equal to a registered route resolves to that route, and every
\* other hash, the empty one included, resolves to 'home'.
C1_HashResolvesToRegisteredOrDefault ==
    getCurrentRoute = IF HashId \in RouteNames THEN HashId ELSE "home"

\* C2: once a navigation to route r has fetched and rendered its fragment
\* (r has a cache entry), a later navigation to r issues no fetch and renders
\* the stored fragment.
C2_CachedRouteIsNotFetchedAgain ==
    [][\A r \in DOMAIN pageCache :
          (LastIsNavigate(last') /\ last'.route = r)
              => /\ ~last'.fetched
                 /\ fetchCount' = fetchCount
                 /\ content' = [view |-> "page", route |-> r,
                                html |-> pageCache[r], link |-> ""]]_vars

\* C3, as claimed: in every session each route's fragment is fetched at most
\* once.
C3_EachRouteFetchedAtMostOnce ==
    \A r \in RouteNames : fetchCount[r] <= 1

\* C3, amended: a fetch of route r is issued only by a navigation that starts
\* while the page cache holds no non-empty fragment for r, and it is one
\* fetch per navigation.
C3_FetchOnlyWithoutCachedFragment ==
    [][\A r \in RouteNames :
          fetchCount'[r] # fetchCount[r]
              => /\ fetchCount'[r] = fetchCount[r] + 1
                 /\ LastIsNavigate(last') /\ last'.route = r
                 /\ (r \notin DOMAIN pageCache \/ pageCache[r] = "")]_vars

\* Two navigations to the same route are suspended at once, each with its
\* own fetch.
C3_Witness ==
    \E r \in RouteNames :
        /\ fetchCount[r] = 2
        /\ r \notin DOMAIN pageCache
        /\ \A n \in BagToSet(pending) : n.route = r
        /\ BagCardinality(pending) = 2

\* C4, as claimed: after a failed fragment fetch the content region shows the
\* error view, the cache has no fragment for the route, and so the next
\* navigation to the route fetches again.
C4_FailedFetchLeavesRouteUncached ==
    (last.op = "settled" /\ ~last.ok)
        => /\ content = ErrorViewOf(last.route)
           /\ (last.route \notin DOMAIN pageCache \/ pageCache[last.route] = "")

\* C4, amended: a failed fragment fetch shows the error view with the link to
\* the default route and leaves the page cache as it was; and a navigation
\* to a route for which the cache holds no non-empty fragment issues a
\* fetch (so the failed route is fetched again unless an overlapping
\* navigation to it has stored a fragment).
C4_FailedFetchKeepsCacheAndRetries ==
    [][/\ (last'.op = "settled" /\ ~last'.ok)
            => /\ content' = ErrorViewOf(last'.route)
               /\ pageCache' = pageCache
               /\ fetchCount' = fetchCount
       /\ \A r \in RouteNames :
            ( /\ LastIsNavigate(last') /\ last'.route = r
              /\ (r \notin DOMAIN pageCache \/ pageCache[r] = "") )
                => /\ last'.fetched
                   /\ fetchCount'[r] = fetchCount[r] + 1]_vars

\* A fetch has just failed: error view shown, no cache entry for the route.
C4_Witness ==
    /\ last.op = "settled" /\ ~last.ok
    /\ content.view = "error" /\ content.route = last.route
    /\ last.route \notin DOMAIN pageCache
    /\ fetchCount[last.route] = 1

\* C5: navigate called with an unregistered route does no loading, fetch or
\* render for that route and ends, after exactly one extra hop, as
\* navigate('home') does.
C5_UnregisteredRouteRedirectsToDefault ==
    (LastIsNavigate(last) /\ last.arg \notin RouteNames)
        => /\ last.hops = 1
           /\ last.route = "home"
           /\ content.route # last.arg

\* C6, as claimed: when an abandoned navigation's fetch resolves after a
\* later navigation was started and nothing is pending any more, the content
\* region shows the fragment of the route named by the current hash.
C6_SettledContentShowsCurrentRoute ==
    ( /\ pending = EmptyBag
      /\ last.op = "settled" /\ last.ok /\ last.superseded
      /\ HashId \in RouteNames \cup {""} )
        => (content.view = "page" /\ content.route = getCurrentRoute)

\* C6, amended: the abandoned navigation's fragment enters the cache and is
\* rendered as well; once nothing is pending, the content region shows the
\* outcome of the navigation that settled last (its fragment, which is the
\* cached one, or its error view), whatever the current hash names.
C6_SettledContentShowsLastSettled ==
    (pending = EmptyBag /\ last.op \in {"settled", "init", "navigate"})
        => IF last.ok
           THEN /\ content = [view |-> "page", route |-> last.route,
                              html |-> last.html, link |-> ""]
                /\ Get(pageCache, last.route) = last.html
           ELSE content = ErrorViewOf(last.route)

\* An abandoned navigation settled last: its fragment is shown although the
\* current hash names another route.
C6_Witness ==
    /\ pending = EmptyBag
    /\ last.op = "settled" /\ last.ok /\ last.superseded
    /\ content.view = "page" /\ content.route = last.route
    /\ content.route # getCurrentRoute
    /\ HashId \in RouteNames \cup {""}
    /\ last.route \in DOMAIN pageCache


-----------------------------------------------------------------------------
(* Properties of the translation store *)

\* The languages the site supports.
LangCodes == {"en", "de", "pt"}

\* The entry of key in the table of language lang, if the table has one.
HasEntry(lang, key) ==
    lang \in DOMAIN translations /\ key \in DOMAIN translations[lang]

\* C7: t(key) returns the active language's entry when there is one,
\* otherwise the 'en' entry when there is one, otherwise the key itself.
C7_LookupReturnsEntryFallbackOrKey ==
    last.op = "t"
        => last.result =
              IF HasEntry(currentLang, last.arg)
              THEN translations[currentLang][last.arg]
              ELSE IF HasEntry("en", last.arg)
              THEN translations["en"][last.arg]
              ELSE last.arg

\* C8: setLanguage with a language outside {en, de, pt} changes neither the
\* active language, the stored preference, the translated document nor the
\* title and description, and dispatches no langchange event.
C8_UnsupportedLanguageIsNoOp ==
    [][(last'.op = "setLanguage" /\ last'.arg \notin LangCodes)
          => /\ currentLang' = currentLang
             /\ storage' = storage
             /\ domText' = domText
             /\ domLang' = domLang
             /\ langBtn' = langBtn
             /\ docTitle' = docTitle
             /\ docDesc' = docDesc
             /\ last'.events = <<>>]_vars

\* setLanguage('fr') has returned while a stored preference and an active
\* language other than the initial one exist.
C8_Witness ==
    /\ last.op = "setLanguage" /\ last.arg = "fr"
    /\ currentLang = "pt" /\ storage = "pt"
    /\ last.events = <<>>

\* C9: setLanguage with a supported language makes it the active language,
\* stores it, re-applies the translations to the document and dispatches
\* exactly one langchange event carrying it; while the event is dispatched
\* a listener already reads the new language, the new stored preference and
\* the re-translated document.
C9_SupportedLanguageIsSetThenAnnounced ==
    [][(last'.op = "setLanguage" /\ last'.arg \in LangCodes)
          => /\ currentLang' = last'.arg
             /\ storage' = last'.arg
             /\ domText' = [k \in DOMAIN domText |->
                               tIn(translations, last'.arg, k)]
             /\ domLang' = ( LET v == tIn(translations, last'.arg, "lang.html")
                              IN  IF v = "" THEN last'.arg ELSE v )
             /\ langBtn' = {last'.arg}
             /\ Len(last'.events) = 1
             /\ last'.events[1].type = "langchange"
             /\ last'.events[1].lang = last'.arg
             /\ last'.events[1].seenLang = last'.arg
             /\ last'.events[1].seenStored = last'.arg
             /\ last'.events[1].seenDom =
                    [text |-> domText', lang |-> domLang', btn |-> langBtn']
       ]_vars

\* setLanguage('de') has changed the language from another one and its
\* event was dispatched.
C9_Witness ==
    /\ last.op = "setLanguage" /\ last.arg = "de"
    /\ currentLang = "de" /\ storage = "de"
    /\ Len(last.events) = 1
    /\ domText["nav.about"] = "Ueber uns"

\* The primary subtag of the user agent's locale.
PrimarySubtag ==
    CASE navLanguage = <<"d", "e", "-", "D", "E">> -> "de"
      [] navLanguage = <<"p", "t">> -> "pt"
      [] navLanguage = <<"f", "r", "-", "F", "R">> -> "fr"
      [] OTHER -> ""

\* The candidates of language detection, in priority order.
Candidates == <<urlLang, storage, PrimarySubtag, "en">>

\* C10: at start-up the active language becomes the first of the URL
\* override, the stored preference, the locale's primary subtag and 'en'
\* that is a supported language.
C10_DetectsFirstSupportedCandidate ==
    last.op = "init"
        => \E i \in 1..4 :
              /\ Candidates[i] \in LangCodes
              /\ \A j \in 1..(i - 1) : Candidates[j] \notin LangCodes
              /\ currentLang = Candidates[i]

\* Start-up with stored preference 'pt', no URL override and a locale that
\* names another supported language: Portuguese is activated.
C10_Witness ==
    /\ last.op = "init"
    /\ urlLang = NoItem /\ storage = "pt"
    /\ navLanguage = <<"d", "e", "-", "D", "E">>
    /\ currentLang = "pt"

-----------------------------------------------------------------------------
(* Properties of the language preference *)

\* C11, as claimed: once start-up (i18n.init) has completed, and after any
\* sequence of setLanguage calls, the stored preference equals the active
\* language.
C11_StoredPreferenceEqualsActiveLanguage ==
    i18nPc = "ready" => storage = currentLang

\* C11, amended: start-up activates the detected language without writing
\* the stored preference; every setLanguage call with a supported language
\* leaves the stored preference equal to the active language, and from then
\* on the two stay equal.
C11_PreferenceStoredBySetLanguageOnly ==
    [][/\ last'.op = "init" => storage' = storage
       /\ (last'.op = "setLanguage" /\ last'.arg \in LangCodes)
            => (currentLang' = last'.arg /\ storage' = currentLang')
       /\ (i18nPc = "ready" /\ storage = currentLang)
            => storage' = currentLang']_vars

\* Start-up activated the URL override 'de' over another stored preference;
\* setLanguage('pt') then made the stored preference and the active
\* language agree.
C11_Witness ==
    /\ urlLang = "de"
    /\ last.op = "setLanguage" /\ last.arg = "pt"
    /\ currentLang = "pt" /\ storage = "pt"
    /\ domLang # "pt"

\* The text the claims expect for key under language lang: the language's
\* entry, else the 'en' entry, else the key.
EntryFallbackOrKey(lang, key) ==
    IF HasEntry(lang, key) THEN translations[lang][key]
    ELSE IF HasEntry("en", key) THEN translations["en"][key]
    ELSE key

\* C12: after setLanguage(L) with a supported L every [data-i18n] element
\* shows L's entry for its key, else the 'en' entry, else the key; and the
\* document's lang attribute is L's 'lang.html' entry when L has one and the
\* language code L otherwise.
C12_DocumentShowsLanguageAndLangAttribute ==
    [][(last'.op = "setLanguage" /\ last'.arg \in LangCodes)
          => /\ domText' = [k \in DOMAIN domText |->
                               EntryFallbackOrKey(last'.arg, k)]
             /\ domLang' = IF HasEntry(last'.arg, "lang.html")
                           THEN translations[last'.arg]["lang.html"]
                           ELSE last'.arg]_vars

\* C13: when the request for the translations fails (network error or a
\* status outside 2xx), the table stays empty, i18n.init completes, the
\* router is started and the initial navigation is performed (loading view,
\* one fetch of the resolved route); the table stays empty afterwards, the
\* document shows raw keys and t(key) returns key.
C13_FailedTranslationLoadIsNotFatal ==
    [][/\ (i18nPc = "fetch" /\ i18nPc' \notin {"fetch", "json"})
            => /\ translations' = EmptyTable
               /\ i18nPc' = "ready"
               /\ routerReady'
               /\ last'.op = "init" /\ last'.fetched
               /\ last'.route = getCurrentRoute
               /\ content' = showLoading
               /\ fetchCount'[last'.route] = fetchCount[last'.route] + 1
               /\ BagCardinality(pending') = 1
               /\ domText' = [k \in DOMAIN domText' |-> k]
       /\ (i18nPc = "ready" /\ translations = EmptyTable)
            => /\ translations' = EmptyTable
               /\ last'.op = "t" => last'.result = last'.arg
               /\ last'.op = "setLanguage"
                    => domText' = [k \in DOMAIN domText' |-> k]]_vars

\* After a failed load the initial navigation has rendered the home
\* fragment and t is asked for a key: the key comes back.
C13_Witness ==
    /\ translations = EmptyTable
    /\ i18nPc = "ready" /\ routerReady
    /\ content.view = "page" /\ content.route = "home"
    /\ last.op = "t" /\ last.arg = "hero.title" /\ last.result = "hero.title"
    /\ domText["hero.title"] = "hero.title"

-----------------------------------------------------------------------------
(* Properties of rendering *)

\* The step observed by l rendered a fragment: a navigation served from the
\* cache, or a fetched fragment that arrived.
RenderStep(l) ==
    \/ LastIsNavigate(l) /\ ~l.fetched
    \/ l.op = "settled" /\ l.ok

\* How often x occurs in the sequence seq.
Occurrences(seq, x) == Cardinality({i \in 1..Len(seq) : seq[i] = x})

\* C14: every step that renders the fragment of a route calls the
\* initializer registered for that route exactly once (homePage.init for
\* 'home', none for the other routes) after the fragment is in the content
\* region; a navigation that ends in the error view, and every other step,
\* calls no initializer.  So from an empty hash the arrival of the home
\* fragment renders it and calls homePage.init once.
C14_InitializerRunsOncePerRender ==
    [][IF RenderStep(last')
       THEN /\ content' = [view |-> "page", route |-> last'.route,
                           html |-> last'.html, link |-> ""]
            /\ Occurrences(last'.inits, "homePage.init") =
                  (IF last'.route = "home" THEN 1 ELSE 0)
            /\ Occurrences(last'.inits, "main.initScrollAnimations") = 1
            /\ Len(last'.inits) = (IF last'.route = "home" THEN 2 ELSE 1)
       ELSE /\ last'.inits = <<>>
            /\ (last'.op = "settled" => content' = ErrorViewOf(last'.route))
      ]_vars

\* Started with an empty hash, the one fetch of the home fragment has
\* arrived: the fragment is shown and homePage.init was called once.
C14_Witness ==
    /\ locationHash = <<>>
    /\ last.op = "settled" /\ last.ok /\ ~last.superseded
    /\ last.route = "home"
    /\ fetchCount = [r \in RegisteredRoutes |-> IF r = "home" THEN 1 ELSE 0]
    /\ content.view = "page" /\ content.route = "home"
    /\ last.inits = <<"main.initScrollAnimations", "homePage.init">>

\* The value updatePageMeta leaves for key under language lang: the entry
\* of the language, else the 'en' entry, else the old value.
EntryFallbackOrOld(lang, key, old) ==
    IF HasEntry(lang, key) THEN translations[lang][key]
    ELSE IF HasEntry("en", key) THEN translations["en"][key]
    ELSE old

\* C15: a setLanguage call, with the langchange event it may dispatch,
\* issues no fragment fetch, leaves the content region, the page cache, the
\* suspended navigations and the marked navigation link as they are and
\* calls no initializer; with a supported language the title and the
\* description are refreshed for the current route.
C15_LangChangeRefreshesMetadataOnly ==
    [][last'.op = "setLanguage"
          => /\ content' = content
             /\ pageCache' = pageCache
             /\ fetchCount' = fetchCount
             /\ pending' = pending
             /\ activeNav' = activeNav
             /\ last'.inits = <<>>
             /\ ~last'.fetched
             /\ last'.arg \in LangCodes
                  => /\ Len(last'.events) = 1
                     /\ docTitle' = EntryFallbackOrOld(last'.arg,
                            "page." \o getCurrentRoute \o ".title", docTitle)
                     /\ docDesc' = EntryFallbackOrOld(last'.arg,
                            "page." \o getCurrentRoute \o ".meta", docDesc)
      ]_vars

\* The home fragment was rendered under 'pt' (title from the 'en' entry) and
\* is still shown after setLanguage('de') has put the German title.
C15_Witness ==
    /\ last.op = "setLanguage" /\ last.arg = "de"
    /\ Len(last.events) = 1
    /\ urlLang = NoItem /\ navLanguage = <<"p", "t">>
    /\ storage = "de"
    /\ content = [view |-> "page", route |-> "home", html |-> "A",
                  link |-> ""]
    /\ "home" \in DOMAIN pageCache
    /\ docTitle = "Startseite | CCC"
    /\ docDesc = "Consulting"

\* C16: a step that renders the fragment of a route leaves marked as
\* current exactly the navigation links whose data-page is that route; and
\* in every state the marked links name at most one route.
C16_OnlyRenderedRouteIsMarkedCurrent ==
    [][/\ RenderStep(last')
            => \A l \in NavLinks : (l \in activeNav') <=> (l = last'.route)
       /\ \A l, m \in activeNav' : l = m]_vars

\* The link of 'about' is the marked one after the home fragment had been
\* rendered, and so marked, earlier in the session.
C16_Witness ==
    /\ RenderStep(last) /\ last.route = "about"
    /\ activeNav = {"about"}
    /\ "home" \in DOMAIN pageCache /\ pageCache["home"] = "A"
    /\ content.route = "about"

\* The entry a lookup of key under table tr and language lang hits (the
\* language's, else the 'en' one), or old when it hits none.
HitOrOld(tr, lang, key, old) ==
    IF lang \in DOMAIN tr /\ key \in DOMAIN tr[lang] THEN tr[lang][key]
    ELSE IF "en" \in DOMAIN tr /\ key \in DOMAIN tr["en"] THEN tr["en"][key]
    ELSE old

\* C17: a step that renders route r sets the title to the entry found for
\* 'page.<r>.title' and the description to the entry found for
\* 'page.<r>.meta'; when no entry is found the title (the description) stays
\* exactly as it was and is never the raw key.  No other step of a
\* navigation session changes either.
C17_MetadataSetOnHitKeptOnMiss ==
    [][IF RenderStep(last')
       THEN LET titleKey == "page." \o last'.route \o ".title"
                metaKey == "page." \o last'.route \o ".meta"
            IN  /\ docTitle' = HitOrOld(translations', currentLang',
                                        titleKey, docTitle)
                /\ docDesc' = HitOrOld(translations', currentLang',
                                       metaKey, docDesc)
                /\ docTitle' # titleKey
                /\ docDesc' # metaKey
       ELSE docTitle' = docTitle /\ docDesc' = docDesc]_vars

\* The about fragment was rendered under 'de' after the home fragment: the
\* title came from the 'en' entry of page.about.title, and the description,
\* for which no language has an entry, is still the one of the home page.
C17_Witness ==
    /\ RenderStep(last) /\ last.route = "about"
    /\ currentLang = "de"
    /\ "de" \in DOMAIN translations
    /\ "page.about.title" \notin DOMAIN translations["de"]
    /\ docTitle = "About | CCC"
    /\ docDesc = "Consulting"

-----------------------------------------------------------------------------
(* Properties of the contact form *)

\* The success view: the message is shown, the form and its button are not.
SuccessView(f) == ~f.successHidden /\ f.formHidden /\ f.btnHidden

\* C18: a submit event with a non-empty _gotcha value shows the success
\* view and issues no request, whatever the other inputs hold; the fields
\* are not validated (their marks stay as they were).
C18_FilledBotTrapFakesSuccess ==
    [][(last'.op = "submit" /\ contactForm.gotcha # "")
          => /\ SuccessView(contactForm')
             /\ ~last'.fetched
             /\ submitPc' = "idle"
             /\ contactForm'.hasError = contactForm.hasError
             /\ ~contactForm'.isLoading]_vars

\* A bot has filled in the trap and left name, email and message invalid:
\* the success view is shown, no field was marked, nothing was sent.
C18_Witness ==
    /\ last.op = "submit" /\ ~last.fetched
    /\ contactForm.gotcha = "http://spam.example"
    /\ contactForm.name = <<>> /\ contactForm.email = <<"a", "@", "b">>
    /\ contactForm.message = <<"h", "e", "l", "l", "o">>
    /\ SuccessView(contactForm)
    /\ contactForm.hasError = {}
    /\ submitPc = "idle"

\* The input values that are invalid by the rules of the form: a name of
\* less than 2 characters, an email that is not local@domain.tld, a message
\* of less than 10 characters, blanks at both ends not counted.
BadNames == {<<>>, <<" ", "A", " ">>}

BadEmails ==
    {<<>>, <<"a", "@", "b">>, <<"a", " ", "@", "b", ".", "c">>,
     <<"a", "@", "b", ".">>}

BadMessages ==
    {<<>>, <<"h", "e", "l", "l", "o">>,
     <<" ", "h", "e", "l", "l", "o", " ", "y", "o", "u", " ">>}

Offending(f) ==
    {x \in {"name", "email", "message"} :
        \/ x = "name" /\ f.name \in BadNames
        \/ x = "email" /\ f.email \in BadEmails
        \/ x = "message" /\ f.message \in BadMessages}

\* C19: a submit event with an empty _gotcha value and at least one invalid
\* field leaves marked exactly the invalid fields (marks of fields that
\* have become valid are gone), changes nothing else of the form and
\* issues no request.
C19_InvalidFieldsMarkedNothingSent ==
    [][(last'.op = "submit" /\ contactForm.gotcha = ""
            /\ Offending(contactForm) # {})
          => /\ contactForm' =
                    [contactForm EXCEPT !.hasError = Offending(contactForm)]
             /\ ~last'.fetched
             /\ submitPc' = "idle"]_vars

\* After a submission that failed (its error message is still shown) the
\* visitor has made the email invalid and the message 5 characters long:
\* these two fields are marked, the name is not.
C19_Witness ==
    /\ last.op = "submit" /\ ~last.fetched
    /\ contactForm.gotcha = ""
    /\ contactForm.name = <<"A", "l">>
    /\ contactForm.email = <<"a", "@", "b">>
    /\ contactForm.message = <<"h", "e", "l", "l", "o">>
    /\ contactForm.hasError = {"email", "message"}
    /\ ~contactForm.errorHidden
    /\ ~contactForm.formHidden /\ contactForm.successHidden

\* C20: when the request of a submission is rejected or answered with a
\* status outside 2xx, the error message is shown, the form and its button
\* stay visible, the button is neither loading nor disabled (another submit
\* event is possible), and the success message stays hidden.
C20_FailedSubmissionCanBeRetried ==
    [][(last'.op = "submit.settled" /\ ~last'.ok)
          => /\ ~contactForm'.errorHidden
             /\ ~contactForm'.formHidden /\ ~contactForm'.btnHidden
             /\ ~contactForm'.isLoading /\ ~contactForm'.disabled
             /\ contactForm'.successHidden
             /\ contactForm'.bound /\ submitPc' = "idle"
             /\ contactForm'.hasError = {}]_vars

\* The request of a valid submission was rejected (network error): the
\* error message is shown above the form, whose button is enabled again.
C20_Witness ==
    /\ last.op = "submit.settled" /\ ~last.ok /\ last.result = "rejected"
    /\ Offending(contactForm) = {}
    /\ ~contactForm.errorHidden /\ ~contactForm.formHidden
    /\ ~contactForm.isLoading /\ ~contactForm.disabled
    /\ contactForm.successHidden

-----------------------------------------------------------------------------
(* Properties of the site as a whole *)

\* C21: once the router has rendered the contact fragment, handleSubmit is
\* bound to the submit event of the form the fragment holds.
C21_RenderedContactFormIsBound ==
    (content.view = "page" /\ content.route = "contact"
        /\ contactForm.present)
        => contactForm.bound

\* C22, as claimed: once every navigation has settled, the content region
\* holds the markup passed to the renderPage call executed last.
C22_SettledContentIsLastRender ==
    ( /\ routerReady /\ pending = EmptyBag
      /\ rendered.view = "page" /\ rendered.route \in RouteNames )
        => content = rendered

\* C22, amended: whenever the content region shows a fragment it is the one
\* of the renderPage call executed last; the content region is written by
\* renderPage, by showLoading when a navigation issues a fetch and by
\* showError when a navigation fails, and by nothing else; so once every
\* navigation has settled it holds the markup of the last renderPage call,
\* or the error view if a navigation failed after that call.
C22_ContentIsLastRenderOrErrorView ==
    [][/\ content'.view = "page" => content' = rendered'
       /\ (routerReady' /\ pending' = EmptyBag)
            => (content' = rendered' \/ content'.view = "error")
       /\ content' # content
            => \/ RenderStep(last') /\ content' = rendered'
               \/ /\ last'.op = "settled" /\ ~last'.ok
                  /\ content' = ErrorViewOf(last'.route)
                  /\ rendered' = rendered
               \/ /\ LastIsNavigate(last') /\ last'.fetched
                  /\ content' = showLoading
                  /\ rendered' = rendered]_vars

\* Every navigation has settled and the one that settled last failed after
\* a fragment had been rendered: the content region holds the error view,
\* not the markup of the last renderPage call.
C22_Witness ==
    /\ routerReady /\ pending = EmptyBag
    /\ rendered.view = "page" /\ rendered.route = "home"
    /\ last.op = "settled" /\ ~last.ok /\ last.route = "about"
    /\ content = ErrorViewOf("about")

\* C23: a pending navigation blocks nothing.  While navigations are
\* suspended at their fetch, navigate can be called for any route (within
\* the bounds of the exploration when it has to fetch), and each suspended
\* navigation can settle, with success or failure, whatever the others do:
\* none has to wait for one that started earlier.
C23_PendingNavigationBlocksNothing ==
    (routerReady /\ pending # EmptyBag)
        => /\ \A r \in NavigateArgs \cap RouteNames :
                 ( \/ cacheHit(r)
                   \/ /\ BagCardinality(pending) < MaxPending
                      /\ fetchCount[r] < MaxFetches )
                     => ENABLED Navigate(r)
           /\ \A n \in BagToSet(pending) :
                 IF n.stage = "fetch"
                 THEN ENABLED FetchResponse(n, TRUE)
                      /\ ENABLED FetchResponse(n, FALSE)
                 ELSE ENABLED TextDone(n, "A") /\ ENABLED TextFail(n)

\* The navigation to 'about' started while the fetch of the home fragment
\* was pending, and its fragment is rendered while that fetch is still
\* pending.
C23_Witness ==
    /\ last.op = "settled" /\ last.ok /\ ~last.superseded
    /\ last.route = "about"
    /\ content = [view |-> "page", route |-> "about", html |-> "A",
                  link |-> ""]
    /\ pending = SetToBag({[route |-> "home", stage |-> "fetch",
                            superseded |-> TRUE]})
    /\ "home" \notin DOMAIN pageCache

\* C24, as claimed: the keys of the page cache are registered route names,
\* an entry is created only by a successful fetch of its route, no entry is
\* removed, and the text of an entry is never replaced by different text.
C24_CacheEntriesAreNeverReplaced ==
    [][/\ DOMAIN pageCache' \subseteq RouteNames
       /\ \A r \in DOMAIN pageCache' \ DOMAIN pageCache :
             last'.op = "settled" /\ last'.ok /\ last'.route = r
       /\ \A r \in DOMAIN pageCache :
             r \in DOMAIN pageCache' /\ pageCache'[r] = pageCache[r]]_vars

\* C24, amended: the keys of the page cache are registered route names, no
\* entry is removed, and an entry is created or changed only by a
\* successful fetch of its route, which stores the text fetched; a later
\* fetch of the same route (issued while another one was pending, or while
\* the cached text was empty) overwrites the entry, with different text if
\* the response differs.
C24_CacheWrittenOnlyByFetchOfRoute ==
    [][/\ DOMAIN pageCache' \subseteq RouteNames
       /\ DOMAIN pageCache \subseteq DOMAIN pageCache'
       /\ \A r \in DOMAIN pageCache' :
             (r \notin DOMAIN pageCache \/ pageCache'[r] # pageCache[r])
                => /\ last'.op = "settled" /\ last'.ok /\ last'.route = r
                   /\ pageCache'[r] = last'.html
                   /\ fetchCount[r] >= 1
                   /\ r \in DOMAIN pageCache => fetchCount[r] >= 2]_vars

\* Two fetches of the home fragment were pending at once; the second
\* response has replaced the text "A" stored by the first with "".
C24_Witness ==
    /\ last.op = "settled" /\ last.ok /\ last.route = "home"
    /\ last.html = ""
    /\ pageCache = [r \in {"home"} |-> ""]
    /\ rendered.html = ""
    /\ fetchCount["home"] = 2
    /\ pending = EmptyBag
    /\ docDesc = "Consulting"

\* fetch() calls issued so far, over all fragments.
TotalFetches(fc) ==
    fc["home"] + fc["about"] + fc["services"] + fc["contact"] + fc["imprint"]

\* The step is one call of navigate: it issues one fetch and suspends, or
\* it renders a fragment without fetching.
OneNavigateCall ==
    IF last'.fetched
    THEN /\ TotalFetches(fetchCount') = TotalFetches(fetchCount) + 1
         /\ BagCardinality(pending') = BagCardinality(pending) + 1
         /\ content' = showLoading
    ELSE /\ fetchCount' = fetchCount
         /\ BagCardinality(pending') = BagCardinality(pending)
         /\ content' = PageView(last'.html, last'.route)
         /\ rendered' = content'

\* C25: router.init happens once and performs one navigation, to the route
\* resolved from the location hash; afterwards a hashchange or popstate
\* event performs one navigate call, to the route resolved from the new
\* hash, and no other step issues a fetch.
C25_OneNavigationPerEvent ==
    [][/\ routerReady => (routerReady' /\ last'.op # "init")
       /\ (~routerReady /\ routerReady')
             => /\ last'.op = "init"
                /\ last'.arg = RouteOf(locationHash')
                /\ OneNavigateCall
       /\ (routerReady /\ locationHash' # locationHash)
             => /\ last'.op = "navigate"
                /\ last'.arg = RouteOf(locationHash')
                /\ OneNavigateCall
       /\ last'.op = "navigate" => (routerReady /\ OneNavigateCall)
       /\ ~LastIsNavigate(last')
             => /\ fetchCount' = fetchCount
                /\ BagCardinality(pending') <= BagCardinality(pending)]_vars

\* After start-up with one fetch of the home fragment, a hashchange to
\* '#about' has issued the second fetch: two fetches for two events.
C25_Witness ==
    /\ routerReady
    /\ last.op = "navigate" /\ last.arg = "about" /\ last.fetched
    /\ locationHash = <<"#", "about">>
    /\ fetchCount["home"] = 1 /\ fetchCount["about"] = 1
    /\ TotalFetches(fetchCount) = 2
    /\ BagCardinality(pending) = 2

\* C26: until the translation load has settled, with a table or without
\* one, the router is not started: no listener is bound, no fragment is
\* requested and nothing is rendered.  The step in which the load settles
\* detects the language and then starts the router; the table is not
\* replaced afterwards, and every fragment shown, the first one included,
\* carries the texts of that table in the active language.
C26_RouterStartsAfterTranslationLoad ==
    [][/\ i18nPc' # "ready"
             => /\ ~routerReady'
                /\ pending' = EmptyBag
                /\ TotalFetches(fetchCount') = 0
                /\ content' = InitialView /\ rendered' = InitialView
                /\ translations' = EmptyTable
                /\ ~LastIsNavigate(last')
       /\ routerReady' => i18nPc' = "ready"
       /\ last'.op = "init"
             => /\ i18nPc # "ready" /\ ~routerReady /\ routerReady'
                /\ currentLang' = detectLanguage(urlLang, storage, navLanguage)
       /\ i18nPc = "ready" => translations' = translations
       /\ content'.view = "page"
             => domText' = updateDOMText(translations', currentLang',
                                         content')]_vars

\* The home fragment, requested at start-up under the German table, has
\* arrived as the first render and shows the German navigation text.
C26_Witness ==
    /\ last.op = "settled" /\ last.ok /\ last.route = "home"
    /\ TotalFetches(fetchCount) = 1
    /\ translations = TranslationsJson
    /\ currentLang = "de"
    /\ content = PageView("A", "home")
    /\ domText["nav.about"] = "Ueber uns"
    /\ domText["hero.title"] = "Welcome"

\* C27: every call of navigate (all end at a registered route, or at an
\* inherited member treated as one) writes the loading placeholder before
\* the cache test: with a cached fragment the render follows in the same
\* step, otherwise the placeholder stays while the fetch is pending.  The
\* placeholder is written by no other step, and it is shown only while a
\* navigation is pending: once all have settled, the content region shows a
\* fragment or the error view.
C27_PlaceholderShownWhilePending ==
    [][/\ LastIsNavigate(last')
             => /\ last'.loading
                /\ IF last'.fetched
                   THEN content' = showLoading
                   ELSE content' = PageView(last'.html, last'.route)
       /\ ~LastIsNavigate(last')
             => /\ ~last'.loading
                /\ content'.view = "loading" => content.view = "loading"
       /\ content'.view = "loading" => pending' # EmptyBag
       /\ (pending' = EmptyBag /\ routerReady')
             => content'.view \in {"page", "error"}]_vars

\* The about fragment is cached and the home fragment is shown; a
\* navigation to about has written the placeholder and then rendered the
\* cached fragment, with nothing pending.
C27_Witness ==
    /\ last.op = "navigate" /\ last.arg = "about" /\ ~last.fetched
    /\ last.loading
    /\ "about" \in DOMAIN pageCache /\ pageCache["about"] = "A"
    /\ content = PageView("A", "about")
    /\ fetchCount["about"] = 1
    /\ pending = EmptyBag

-----------------------------------------------------------------------------
(* Properties of the home gallery *)

\* The cards whose request has ended with a body.
FetchedCards ==
    {i \in DOMAIN gallery.fetches :
        gallery.fetches[i].pc = "done" /\ gallery.fetches[i].result # NoItem}

\* The gallery shows the body of every fetched card once, in list order.
ShowsFetchedCardsInListOrder ==
    \E f \in [1..Len(gallery.shown) -> 1..Len(cards)] :
        /\ \A j, k \in 1..Len(gallery.shown) : j < k => f[j] < f[k]
        /\ {f[k] : k \in 1..Len(gallery.shown)} = FetchedCards
        /\ \A k \in 1..Len(gallery.shown) :
              gallery.shown[k] = gallery.fetches[f[k]].result

\* C29: a rendered home gallery has one request per card of the list, all
\* issued at once; whatever has happened to the others, a pending request
\* can still be answered either way.  While a request is unsettled the
\* loading indicator stays and no card is shown; once all have settled,
\* also when all failed, the indicator is gone and the gallery holds the
\* body of each fetched card exactly once, in the order of the card list,
\* whatever the order of completion.
C29_GalleryShowsFetchedCardsInListOrder ==
    gallery.present
       => /\ DOMAIN gallery.fetches = 1..Len(cards)
          /\ \A i \in 1..Len(cards) :
                gallery.fetches[i].pc = "fetch"
                   => /\ ENABLED CardResponse(i, TRUE)
                      /\ ENABLED CardResponse(i, FALSE)
          /\ IF \A i \in 1..Len(cards) : gallery.fetches[i].pc = "done"
             THEN /\ ~gallery.loading
                  /\ Len(gallery.order) = Len(cards)
                  /\ ShowsFetchedCardsInListOrder
             ELSE /\ gallery.loading
                  /\ gallery.shown = <<>>

\* The requests completed in reverse order and the second card failed: the
\* gallery shows the first and the third card, in list order, and the
\* indicator is gone.
C29_Witness ==
    /\ gallery.present /\ ~gallery.loading
    /\ gallery.order = <<3, 2, 1>>
    /\ gallery.fetches[2].result = NoItem
    /\ gallery.shown = <<"monitoring-evaluation.html",
                         "capacity-building.html">>
    /\ content = PageView("A", "home")

=============================================================================
